---------------------------- MODULE Spec2Model ----------------------------
(***************************************************************************)
(* A model of the Log Center client for JavaScript:                        *)
(*   - the resilient transport of src/lib/client.js (createTlsClient:      *)
(*     ensureConnected, the connect callback, the close handler, close()   *)
(*     and write()),                                                       *)
(*   - the entry builder of src/lib/entry.js (sendEntry and its helpers),  *)
(*   - the base32hex codec of src/unnamed/part_000.                        *)
(*                                                                         *)
(* The TLS socket is the runtime's object.  The transport reads two of its *)
(* flags, `writable` and `connecting`, calls destroy(), write() and        *)
(* setNoDelay() on it, and receives its connect callback and its 'close'   *)
(* event.  A socket is modelled by its phase:                              *)
(*   connecting  connect() was called, the handshake has not finished      *)
(*   open        the connect callback is due or has run                    *)
(*   closing     destroyed or ended; its 'close' event is still to come    *)
(*   closed      its 'close' event has been delivered                      *)
(* Every socket keeps its own handlers, so the 'close' event of a socket   *)
(* the transport has already replaced is still delivered.                  *)
(***************************************************************************)
EXTENDS Integers, Sequences, FiniteSets, TLC

(***************************************************************************)
(* Bounds of the model.                                                    *)
(***************************************************************************)
MaxWrites == 3
MaxSocks == 3

(***************************************************************************)
(* Program constants.                                                      *)
(***************************************************************************)
SeqMod == 16777216
PidMask == 65536
BucketId == 1687515986
XidLen == 12

VARIABLES
    earlyWritable,  \* whether the runtime reports a connecting socket writable
    conn,           \* client.js:50   0 is null, otherwise a socket id
    socks,          \* the sockets connect() has returned, by id
    queue,          \* client.js:53   pending callbacks, each named by its write
    reconnect,      \* client.js:35   the reconnect parameter
    mid,            \* client.js:100
    pid,            \* client.js:101
    seq,            \* client.js:102
    wire,           \* what the sockets have transmitted, in order
    nwrites,        \* number of write() calls made so far
    lastBuf,        \* the header of the last message built (offsets 2..17)
    lastXid,        \* the string the last write() returned
    threw,          \* the operations that have raised
    alive,          \* FALSE once an event callback has raised uncaught
    last,           \* the last operation performed
    cBytes,         \* codec: the bytes given to encode
    cPad,           \* codec: options.includePadding
    cText,          \* codec: the string encode returned
    cOut,           \* codec: what decode returned for cText
    cpc,            \* codec: "off", "input", "encoded" or "decoded"
    call,           \* logger: the arguments and context of a logging call
    entry,          \* logger: the Entry handed to client.write
    epc             \* logger: "off", "call" or "sent"

tvars == <<earlyWritable, conn, socks, queue, reconnect, mid, pid, seq, wire,
           nwrites, lastBuf, lastXid, threw, alive, last>>

cvars == <<cBytes, cPad, cText, cOut, cpc>>

evars == <<call, entry, epc>>

vars == <<tvars, cvars, evars>>


(***************************************************************************)
(* Base32hex codec (src/unnamed/part_000).  A string is a sequence of      *)
(* one-character strings.                                                  *)
(***************************************************************************)
BASE32HEX_CHARSET ==
    << "0", "1", "2", "3", "4", "5", "6", "7", "8", "9", "a", "b", "c", "d",
       "e", "f", "g", "h", "i", "j", "k", "l", "m", "n", "o", "p", "q", "r",
       "s", "t", "u", "v" >>

Pow2(n) == 2 ^ n

CeilDiv(a, b) == (a + b - 1) \div b

\* charset.indexOf(ch): the 0-based index of the first match, or -1
IndexOf(charset, ch) ==
    IF \E i \in 1..Len(charset) : charset[i] = ch
    THEN (CHOOSE i \in 1..Len(charset) :
              /\ charset[i] = ch
              /\ \A j \in 1..(i - 1) : charset[j] # ch) - 1
    ELSE -1

\* part_000:22-32  the bit array of the input: 8 bits per byte, most
\* significant first, zero-filled up to a multiple of g bits (0-based index)
EncodeBitArray(bytes, g) ==
    [i \in 0..(CeilDiv(Len(bytes) * 8, g) * g - 1) |->
        IF i < Len(bytes) * 8
        THEN (bytes[(i \div 8) + 1] \div Pow2(7 - (i % 8))) % 2
        ELSE 0]

\* part_000:37-44  the value of the k-th g-bit group (k from 1)
RECURSIVE GroupValue(_, _, _, _)
GroupValue(bits, from, n, acc) ==
    IF n = 0 THEN acc
    ELSE GroupValue(bits, from + 1, n - 1, acc * 2 + bits[from])

\* padEnd(paddedLength, '=')
PadEnd(str, n) ==
    [i \in 1..(IF n > Len(str) THEN n ELSE Len(str)) |->
        IF i <= Len(str) THEN str[i] ELSE "="]

encodeBaseN(input, includePadding, g, p, charset) ==
    LET bitArray == EncodeBitArray(input, g)
        nchars == CeilDiv(Len(input) * 8, g)
        baseNstr == [k \in 1..nchars |->
                        charset[GroupValue(bitArray, (k - 1) * g, g, 0) + 1]]
    IN  IF includePadding
        THEN PadEnd(baseNstr, CeilDiv(Len(baseNstr), p) * p)
        ELSE baseNstr

\* baseNstr.replace(/=+$/, '')
RECURSIVE StripPadding(_)
StripPadding(str) ==
    IF Len(str) > 0 /\ str[Len(str)] = "="
    THEN StripPadding(SubSeq(str, 1, Len(str) - 1))
    ELSE str

\* part_000:94  Math.floor(bitArray.length / 8): leftover bits are discarded
DecodedLengthCeil(nbits) == (nbits + 7) \div 8

DecodedLength(nbits) == nbits \div 8

\* part_000:64-103  the result is [err, bytes]: err is the RangeError.  A byte
\* is packed from the bits that exist at its place in the bit array.
decodeBaseN(baseNstr, g, charset) ==
    LET str == StripPadding(baseNstr)
        baseNvalue == [k \in 1..Len(str) |-> IndexOf(charset, str[k])]
        bad == \E k \in 1..Len(str) : baseNvalue[k] = -1
        bitArray == [i \in 0..(Len(str) * g - 1) |->
                        (baseNvalue[(i \div g) + 1]
                            \div Pow2(g - 1 - (i % g))) % 2]
        nbytes == DecodedLength(Len(str) * g)
    IN  IF bad THEN [err |-> TRUE, bytes |-> << >>]
        ELSE [err |-> FALSE,
              bytes |-> [b \in 1..nbytes |->
                            GroupValue(bitArray, (b - 1) * 8,
                                       IF b * 8 <= Len(str) * g THEN 8
                                       ELSE Len(str) * g - (b - 1) * 8, 0)]]

encode(input, includePadding) ==
    encodeBaseN(input, includePadding, 5, 8, BASE32HEX_CHARSET)

decode(base32str) == decodeBaseN(base32str, 5, BASE32HEX_CHARSET)

(***************************************************************************)
(* The fixed header of a wire message (src/lib/client.js:104-140), offsets *)
(* ofsBucket .. ofsSev - 1.  The buffer comes from Buffer.allocUnsafe, so  *)
(* a byte no field writes holds whatever the allocator left: Unwritten.    *)
(***************************************************************************)
ofsBucket == 2
ofsTime == 6
ofsMid == 10
ofsPid == 13
ofsSeq == 15
ofsSev == 18

Unwritten == -1

AllocUnsafe == [i \in ofsBucket..(ofsSev - 1) |-> Unwritten]

\* buf.writeUIntBE(value, offset, byteLength), writeUInt32BE, writeUInt16BE
WriteUIntBE(buf, value, offset, byteLength) ==
    [i \in DOMAIN buf |->
        IF offset <= i /\ i < offset + byteLength
        THEN (value \div (256 ^ (offset + byteLength - 1 - i))) % 256
        ELSE buf[i]]

\* buf.subarray(from, to) as a sequence
Subarray(buf, from, to) == [i \in 1..(to - from) |-> buf[from + i - 1]]

\* client.js:140  seq++ & 0xffffff
SeqFieldNarrow(s) == s % PidMask

SeqField(s) == s % SeqMod

\* client.js:134-140
WriteHeader(bucketId, now, m, p, s) ==
    LET b1 == WriteUIntBE(AllocUnsafe, bucketId, ofsBucket, 4)
        b2 == WriteUIntBE(b1, now, ofsTime, 4)
        b3 == WriteUIntBE(b2, m, ofsMid, 3)
        b4 == WriteUIntBE(b3, p, ofsPid, 2)
    IN  WriteUIntBE(b4, SeqField(s), ofsSeq, 3)

\* client.js:198  buf.subarray(ofsTime, ofsTime + 12)
XidBytes(buf) == Subarray(buf, ofsTime, ofsTime + XidLen)


(***************************************************************************)
(* The socket, as the transport sees it.                                   *)
(***************************************************************************)
\* `superseded` records that ensureConnected destroyed this socket and put a
\* new one in its place (client.js:71-76)
NewSocket == [phase |-> "connecting", hadError |-> FALSE, buf |-> << >>,
              superseded |-> FALSE]

SocketIds == 1..Len(socks)

\* client.js:60  conn.writable
Writable(sk) ==
    \/ sk.phase = "open"
    \/ earlyWritable /\ sk.phase = "connecting"

\* client.js:67  conn.connecting
Connecting(sk) == sk.phase = "connecting"

\* client.js:72,120  conn.destroy(): no further I/O, a 'close' event without
\* error follows; a no-op on a socket that is already destroyed
Destroy(ss, s) ==
    IF s # 0 /\ ss[s].phase \in {"connecting", "open"}
    THEN [ss EXCEPT ![s].phase = "closing", ![s].hadError = FALSE,
                    ![s].buf = << >>]
    ELSE ss

\* client.js:71-76  if(conn) { conn.destroy(); conn = null }  conn = connect(...)
Supersede(ss, s) ==
    IF s # 0
    THEN [Destroy(ss, s) EXCEPT ![s].superseded = TRUE]
    ELSE ss

\* client.js:196  conn.write(...): a socket transmits what it is given once it
\* is open
Transmits(sk) == sk.phase = "open"

\* what conn.write(data of write w) on socket s puts on the wire now
Sent(ss, s, w) ==
    IF Transmits(ss[s])
    THEN << [w |-> w, sock |-> s, phase |-> ss[s].phase] >>
    ELSE << >>

\* a connecting socket keeps what it is given until it opens; a destroyed
\* one drops it
Buffered(ss, s, w) ==
    IF ss[s].phase = "connecting"
    THEN [ss EXCEPT ![s].buf = Append(@, w)]
    ELSE ss

\* what socket s transmits on opening: what it was given while connecting
Flushed(ss, s) ==
    [i \in 1..Len(ss[s].buf) |-> [w |-> ss[s].buf[i], sock |-> s,
                                  phase |-> "open"]]

(***************************************************************************)
(* createTlsClient (src/lib/client.js:35-201).                             *)
(***************************************************************************)
\* client.js:100-102, 203-219  machineId() is three bytes of a digest of the
\* host name, pid the low 16 bits of the process id, seq three random bytes
Idents ==
    { [mid |-> 1, pid |-> 4242 % PidMask, seq |-> 7],
      [mid |-> 11259375, pid |-> 70000 % PidMask, seq |-> SeqMod - 2] }
Times == {1700000000, 1700000001}

TransportInit ==
    /\ earlyWritable \in BOOLEAN
    /\ conn = 0
    /\ socks = << >>
    /\ queue = << >>
    /\ reconnect = TRUE
    /\ \E id \in Idents : mid = id.mid /\ pid = id.pid /\ seq = id.seq
    /\ wire = << >>
    /\ nwrites = 0
    /\ lastBuf = AllocUnsafe
    /\ lastXid = << >>
    /\ threw = {}
    /\ alive = TRUE
    /\ last = [op |-> "init", err |-> FALSE, qlen |-> 0]

\* client.js:60  conn?.writable: the optional chaining makes null read as
\* undefined, which is falsy
ConnWritableUnchained(c, ss) ==
    IF c = 0 THEN "TypeError" ELSE IF Writable(ss[c]) THEN "yes" ELSE "no"

ConnWritable(c, ss) ==
    IF c = 0 THEN "no" ELSE IF Writable(ss[c]) THEN "yes" ELSE "no"

\* client.js:59-98  cb is the closure of write w: () => conn.write(...)
ensureConnected(w) ==
    CASE ConnWritable(conn, socks) = "TypeError" ->
            /\ threw' = threw \cup {"write"}
            /\ UNCHANGED <<conn, socks, queue, wire>>
      [] ConnWritable(conn, socks) = "yes" ->
            /\ socks' = Buffered(socks, conn, w)
            /\ wire' = wire \o Sent(socks, conn, w)
            /\ UNCHANGED <<conn, queue, threw>>
      [] ConnWritable(conn, socks) = "no" ->
            /\ queue' = Append(queue, w)
            /\ UNCHANGED threw
            /\ IF conn # 0 /\ Connecting(socks[conn])
               THEN UNCHANGED <<conn, socks, wire>>
               ELSE /\ Len(socks) < MaxSocks
                    /\ socks' = Append(Supersede(socks, conn), NewSocket)
                    /\ conn' = Len(socks) + 1
                    /\ wire' = wire

\* client.js:129-199  the entry's fields after the header are not modelled:
\* a message is named by the number of the write call that built it
ClientWrite(now) ==
    /\ alive
    /\ nwrites < MaxWrites
    /\ LET buf == WriteHeader(BucketId, now, mid, pid, seq)
       IN  /\ lastBuf' = buf
           /\ lastXid' = IF ConnWritable(conn, socks) = "TypeError"
                         THEN << >>
                         ELSE encode(XidBytes(buf), FALSE)
    /\ seq' = seq + 1
    /\ nwrites' = nwrites + 1
    /\ ensureConnected(nwrites + 1)
    /\ last' = [op |-> "write", err |-> FALSE,
                qlen |-> Len(queue)]
    /\ UNCHANGED <<earlyWritable, reconnect, mid, pid, alive>>

write(now) == ClientWrite(now) /\ UNCHANGED <<cvars, evars>>

\* client.js:76-83  the callback given to connect(), run when socket s has
\* finished its handshake.  `conn` is the transport's variable, read when the
\* callback runs; on null, conn.setNoDelay() raises a TypeError nobody catches.
SockConnected(s) ==
    /\ alive
    /\ socks[s].phase = "connecting"
    /\ LET opened == [socks EXCEPT ![s] = [phase |-> "open",
                                           hadError |-> FALSE,
                                           buf |-> << >>,
                                           superseded |-> @.superseded]]
           flushed == wire \o Flushed(socks, s)
       IN  IF conn = 0
           THEN /\ socks' = opened
                /\ wire' = flushed
                /\ threw' = threw \cup {"connect"}
                /\ alive' = FALSE
                /\ UNCHANGED queue
           ELSE IF queue = << >>
           THEN /\ socks' = opened
                /\ wire' = flushed
                /\ UNCHANGED <<queue, threw, alive>>
           ELSE /\ queue' = Tail(queue)
                /\ socks' = Buffered(opened, conn, Head(queue))
                /\ wire' = flushed \o Sent(opened, conn, Head(queue))
                /\ UNCHANGED <<threw, alive>>
    /\ last' = [op |-> "connect", err |-> FALSE,
                qlen |-> Len(queue)]
    /\ UNCHANGED <<earlyWritable, conn, reconnect, mid, pid, seq, nwrites,
                   lastBuf, lastXid, cvars, evars>>

\* The socket fails (handshake refused, connection reset): client.js:85-87
\* logs the error, and the 'close' event that follows carries hadError.
SockFailed(s) ==
    /\ alive
    /\ socks[s].phase \in {"connecting", "open"}
    /\ socks' = [socks EXCEPT ![s] = [phase |-> "closing", hadError |-> TRUE,
                                      buf |-> << >>,
                                      superseded |-> @.superseded]]
    /\ last' = [op |-> "error", err |-> TRUE, qlen |-> Len(queue)]
    /\ UNCHANGED <<earlyWritable, conn, queue, reconnect, mid, pid, seq, wire,
                   nwrites, lastBuf, lastXid, threw, alive, cvars,
                   evars>>

\* The peer ends an open connection (the server's idle timeout): the socket
\* stops being writable, and its 'close' event follows without error.
SockEnded(s) ==
    /\ alive
    /\ socks[s].phase = "open"
    /\ socks' = [socks EXCEPT ![s] = [phase |-> "closing", hadError |-> FALSE,
                                      buf |-> << >>,
                                      superseded |-> @.superseded]]
    /\ last' = [op |-> "end", err |-> FALSE, qlen |-> Len(queue)]
    /\ UNCHANGED <<earlyWritable, conn, queue, reconnect, mid, pid, seq, wire,
                   nwrites, lastBuf, lastXid, threw, alive, cvars,
                   evars>>

\* client.js:91-94  queue.splice(0, queue.length) if an error occured
QueueAfterCloseKept(q, hadError) == q

QueueAfterClose(q, hadError) == IF hadError THEN << >> ELSE q

\* client.js:89-97  the 'close' handler registered on socket s
SockClosed(s) ==
    /\ alive
    /\ socks[s].phase = "closing"
    /\ socks' = [socks EXCEPT ![s].phase = "closed"]
    /\ queue' = QueueAfterClose(queue, socks[s].hadError)
    /\ conn' = 0
    /\ last' = [op |-> "closed", err |-> socks[s].hadError,
                qlen |-> Len(queue)]
    /\ UNCHANGED <<earlyWritable, reconnect, mid, pid, seq, wire, nwrites,
                   lastBuf, lastXid, threw, alive, cvars, evars>>

\* client.js:118-121  conn.destroy() on null raises a TypeError to the caller
close ==
    /\ alive
    /\ reconnect' = FALSE
    /\ IF conn = 0
       THEN /\ threw' = threw \cup {"close"}
            /\ UNCHANGED socks
       ELSE /\ socks' = Destroy(socks, conn)
            /\ UNCHANGED threw
    /\ last' = [op |-> "close", err |-> FALSE,
                qlen |-> Len(queue)]
    /\ UNCHANGED <<earlyWritable, conn, queue, mid, pid, seq, wire, nwrites,
                   lastBuf, lastXid, alive, cvars, evars>>

(***************************************************************************)
(* A consumer of the codec: bytes are encoded, and the text decoded again. *)
(***************************************************************************)
MaxCodecLen == 5

\* the inputs: runs of up to MaxCodecLen bytes, first + i * step modulo 256
CodecFirst == {0, 165, 255}

CodecStep == {0, 37, 128}

ByteRuns ==
    { [i \in 1..n |-> (first + (i - 1) * step) % 256] :
        n \in 0..MaxCodecLen, first \in CodecFirst, step \in CodecStep }

RECURSIVE SeqsUpTo(_, _)
SeqsUpTo(S, n) ==
    IF n = 0 THEN {<< >>}
    ELSE LET shorter == SeqsUpTo(S, n - 1)
         IN  shorter \cup {Append(sq, x) : sq \in shorter, x \in S}

CodecOff ==
    /\ cBytes = << >>
    /\ cPad = FALSE
    /\ cText = << >>
    /\ cOut = [err |-> FALSE, bytes |-> << >>]
    /\ cpc = "off"

CodecInit ==
    /\ cBytes \in ByteRuns
    /\ cPad \in BOOLEAN
    /\ cText = << >>
    /\ cOut = [err |-> FALSE, bytes |-> << >>]
    /\ cpc = "input"

\* part_000:115-118
CodecEncode ==
    /\ cpc = "input"
    /\ cText' = encode(cBytes, cPad)
    /\ cpc' = "encoded"
    /\ UNCHANGED <<cBytes, cPad, cOut, tvars, evars>>

\* part_000:128-131
CodecDecode ==
    /\ cpc = "encoded"
    /\ cOut' = decode(cText)
    /\ cpc' = "decoded"
    /\ UNCHANGED <<cBytes, cPad, cText, tvars, evars>>

(***************************************************************************)
(* The entry builder (src/lib/entry.js).                                   *)
(*                                                                         *)
(* A string is a sequence of UTF-16 code units, each written as a          *)
(* one-character string; "<e9>" stands for U+00E9 (2 bytes of UTF-8) and   *)
(* "<20ac>" for U+20AC (3 bytes).  A JavaScript value is a record tagged   *)
(* with its kind: string, number, null, boolean, array, object (a plain    *)
(* object: its keys in insertion order, and their values) or error.        *)
(***************************************************************************)
\* limits.js is not among the sources; the limits are small stand-ins
maxCategorySize == 5
maxMessageSize == 16
maxMetaCount == 2
maxMetaKeySize == 4
maxMetaValueSize == 5
maxStackTraceCount == 2
maxStackTracePathSize == 12
maxTTL == 7
maxTagSize == 6
maxTagsCount == 2

\* entry.js:128-135
ERROR == 3
INFORMATIONAL == 6

Undefined == -1

VStr(str) == [t |-> "string", s |-> str]
VNum(n) == [t |-> "number", n |-> n]
VNull == [t |-> "null"]
VBool(b) == [t |-> "boolean", b |-> b]
VArr(items) == [t |-> "array", items |-> items]
VObj(keys, vals) == [t |-> "object", keys |-> keys, vals |-> vals]
VErr(message, stack) == [t |-> "error", message |-> message, stack |-> stack]

VUndefined == [t |-> "undefined"]

KeyCategory == <<"_", "c", "a", "t", "e", "g", "o", "r", "y">>
KeyEntryTTL == <<"_", "e", "n", "t", "r", "y", "T", "T", "L">>
KeyMetaTTL == <<"_", "m", "e", "t", "a", "T", "T", "L">>

\* entry.js:18-28
category(categoryId) == VObj(<<KeyCategory>>, <<VNum(categoryId)>>)

TTL(days) == VObj(<<KeyEntryTTL>>, <<VNum(days)>>)

metaTTL(days) == VObj(<<KeyMetaTTL>>, <<VNum(days)>>)

\* client.js:221-223  Buffer.byteLength(str, 'utf8')
Utf8Width(unit) ==
    IF unit = "<20ac>" THEN 3 ELSE IF unit = "<e9>" THEN 2 ELSE 1

RECURSIVE bytes(_)
bytes(str) ==
    IF str = << >> THEN 0 ELSE Utf8Width(Head(str)) + bytes(Tail(str))

\* '' + n for an integer n
RECURSIVE Digits(_)
Digits(n) ==
    LET d == <<"0", "1", "2", "3", "4", "5", "6", "7", "8", "9">>
    IN  IF n < 10 THEN <<d[n + 1]>>
        ELSE Append(Digits(n \div 10), d[(n % 10) + 1])

NumberToString(n) == IF n < 0 THEN <<"-">> \o Digits(-n) ELSE Digits(n)

\* Array.prototype.toString: the elements joined by ",", null as ""
RECURSIVE ArrayToString(_)
ArrayToString(items) ==
    LET one(v) == CASE v.t = "string" -> v.s
                    [] v.t = "number" -> NumberToString(v.n)
                    [] v.t = "boolean" -> IF v.b THEN <<"t", "r", "u", "e">>
                                          ELSE <<"f", "a", "l", "s", "e">>
                    [] v.t = "null" -> << >>
    IN  IF items = << >> THEN << >>
        ELSE IF Len(items) = 1 THEN one(items[1])
        ELSE one(items[1]) \o <<",">> \o ArrayToString(Tail(items))

\* entry.js:240-254  a plain object nested in a list or a map (JSON.stringify)
\* is not among the inputs
stringify(val) ==
    CASE val.t = "null" -> <<"n", "u", "l", "l">>
      [] val.t = "boolean" -> IF val.b THEN <<"t", "r", "u", "e">>
                              ELSE <<"f", "a", "l", "s", "e">>
      [] val.t = "array" -> ArrayToString(val.items)
      [] val.t = "number" -> NumberToString(val.n)
      [] val.t = "string" -> val.s

\* entry.js:261-275  an array has a toString of its own (it is not
\* Object.prototype.toString), so it comes back as a string; a plain object
\* comes back as it is
maybeStringify(val) ==
    CASE val.t = "null" -> VStr(<<"n", "u", "l", "l">>)
      [] val.t = "boolean" -> VStr(IF val.b THEN <<"t", "r", "u", "e">>
                                   ELSE <<"f", "a", "l", "s", "e">>)
      [] val.t = "array" -> VStr(ArrayToString(val.items))
      [] val.t = "object" -> val
      [] val.t = "number" -> VStr(NumberToString(val.n))
      [] val.t = "string" -> val

\* entry.js:207-212
minMax(value, min, max) ==
    IF value < min THEN min ELSE IF value > max THEN max ELSE value

\* entry.js:220-224
append(arr, val, max) == IF Len(arr) < max THEN Append(arr, val) ELSE arr

\* entry.js:231-233  str.substring(0, max) counts UTF-16 code units
truncate(str, max) == SubSeq(str, 1, IF Len(str) < max THEN Len(str) ELSE max)

\* frame.file.endsWith('/logger.js')
LoggerSuffix == <<"/", "l", "o", "g", "g", "e", "r", ".", "j", "s">>

IsSuffix(suffix, sq) ==
    /\ Len(suffix) <= Len(sq)
    /\ SubSeq(sq, Len(sq) - Len(suffix) + 1, Len(sq)) = suffix

\* entry.js:291-296  a frame is [file, lineNumber]; no file is << >>
RECURSIVE TraceFrames(_, _, _)
TraceFrames(e, trace, i) ==
    IF i > Len(trace) THEN e
    ELSE IF trace[i].file = << >> \/ IsSuffix(LoggerSuffix, trace[i].file)
    THEN TraceFrames(e, trace, i + 1)
    ELSE TraceFrames(
            [e EXCEPT
               !.tracePaths = append(@, truncate(trace[i].file,
                                                 maxStackTracePathSize),
                                     maxStackTraceCount),
               !.traceLines = append(@, trace[i].lineNumber,
                                     maxStackTraceCount)],
            trace, i + 1)

\* entry.js:282-297  trace is the parsed stack of the error (or of a new Error)
setStackTrace(e, trace) ==
    IF trace = << >> THEN e
    ELSE TraceFrames([e EXCEPT !.hasTrace = TRUE, !.tracePaths = << >>,
                               !.traceLines = << >>], trace, 1)

\* arg[key] of a plain object: undefined when the key is absent
Property(obj, key) ==
    IF \E i \in 1..Len(obj.keys) : obj.keys[i] = key
    THEN obj.vals[CHOOSE i \in 1..Len(obj.keys) : obj.keys[i] = key]
    ELSE VUndefined

\* if(arg._category): a truthy property
Truthy(obj, key) ==
    LET v == Property(obj, key)
    IN  CASE v.t = "undefined" -> FALSE
          [] v.t = "null" -> FALSE
          [] v.t = "number" -> v.n # 0
          [] v.t = "string" -> v.s # << >>
          [] v.t = "boolean" -> v.b
          [] OTHER -> TRUE

\* entry.js:179-184  for(const key in arg)
RECURSIVE MetaPairs(_, _, _)
MetaPairs(e, obj, i) ==
    IF i > Len(obj.keys) \/ Len(e.metaKeys) >= maxMetaCount THEN e
    ELSE MetaPairs(
            [e EXCEPT
               !.metaKeys = Append(@, truncate(obj.keys[i], maxMetaKeySize)),
               !.metaValues = Append(@, truncate(stringify(obj.vals[i]),
                                                 maxMetaValueSize))],
            obj, i + 1)

\* entry.js:169-190  one argument, already normalized
Classify(e, arg) ==
    IF arg.t = "object"
    THEN IF Truthy(arg, KeyCategory)
         THEN [e EXCEPT !.category = minMax(Property(arg, KeyCategory).n, 0,
                                            maxCategorySize)]
         ELSE IF Truthy(arg, KeyEntryTTL)
         THEN [e EXCEPT !.ttlEntry = minMax(Property(arg, KeyEntryTTL).n, 0,
                                            maxTTL)]
         ELSE IF Truthy(arg, KeyMetaTTL)
         THEN [e EXCEPT !.ttlMeta = minMax(Property(arg, KeyMetaTTL).n, 0,
                                           maxTTL)]
         ELSE MetaPairs(e, arg, 1)
    ELSE IF e.message = << >>
    THEN [e EXCEPT !.message = truncate(arg.s, maxMessageSize)]
    ELSE [e EXCEPT !.tags = append(@, truncate(arg.s, maxTagSize),
                                   maxTagsCount)]

\* entry.js:161-191
RECURSIVE ForArgs(_, _, _)
ForArgs(e, args, i) ==
    IF i > Len(args) THEN e
    ELSE IF args[i].t = "error"
    THEN ForArgs(Classify(setStackTrace(e, args[i].stack),
                          VStr(args[i].message)), args, i + 1)
    ELSE ForArgs(Classify(e, maybeStringify(args[i])), args, i + 1)

\* the Entry literal of entry.js:150-159: category, tracePaths and traceLines
\* are absent from it (undefined)
NewEntry(severity, bucketId, ttlEntry, ttlMeta) ==
    [severity |-> severity, bucketId |-> bucketId, message |-> << >>,
     ttlEntry |-> ttlEntry, ttlMeta |-> ttlMeta, tags |-> << >>,
     metaKeys |-> << >>, metaValues |-> << >>, category |-> Undefined,
     hasTrace |-> FALSE, tracePaths |-> << >>, traceLines |-> << >>]

\* entry.js:147-198 up to the call of client.write; stack is the parsed stack
\* of the calling context
BuildEntry(severity, bucketId, ttlEntry, ttlMeta, args, stack) ==
    LET e1 == ForArgs(NewEntry(severity, bucketId, ttlEntry, ttlMeta), args, 1)
    IN  IF ~e1.hasTrace THEN setStackTrace(e1, stack) ELSE e1

(***************************************************************************)
(* Logging calls: the arguments come from ArgPool, named by their index.   *)
(***************************************************************************)
MaxArgs == 3
MaxScalarArgs == 4

SOrder == <<"o", "r", "d", "e", "r", " ", "%", "d", " ", "c", "r", "e", "a",
            "t", "e", "d">>
SLong == SOrder \o <<"!">>
SEuro == <<"<20ac>", "<20ac>", "<20ac>", "<20ac>", "<20ac>", "<20ac>",
           "<20ac>">>
SFoo == <<"f", "o", "o">>
SBar == <<"b", "a", "r">>
SOhNo == <<"o", "h", " ", "n", "o", "!">>

Frame(file, lineNumber) == [file |-> file, lineNumber |-> lineNumber]

AppStack ==
    << Frame(<<"/", "l", "i", "b", "/", "l", "o", "g", "g", "e", "r", ".",
               "j", "s">>, 197),
       Frame(<<"/", "a", "p", "p", "/", "m", "a", "i", "n", ".", "j", "s">>, 21),
       Frame(<< >>, 0),
       Frame(<<"/", "a", "p", "p", "/", "o", "r", "d", "e", "r", "s", "/",
               "n", "e", "w", ".", "j", "s">>, 7),
       Frame(<<"/", "a", "p", "p", "/", "i", "n", "d", "e", "x", ".", "j",
               "s">>, 1) >>

ArgPool ==
    << VStr(SOrder),
       VStr(SLong),
       VStr(SEuro),
       VNum(123456),
       VObj(<<SFoo>>, <<VStr(SBar)>>),
       VObj(<< <<"l", "o", "n", "g", "k", "e", "y">>, <<"b">>, <<"c">> >>,
            << VStr(<<"l", "o", "n", "g", "v", "a", "l", "u", "e">>), VNum(1),
               VNull >>),
       VArr(<<VStr(<<"a">>), VNum(7)>>),
       category(0 - 5),
       category(maxCategorySize + 100),
       category(0),
       category(3),
       TTL(0),
       TTL(maxTTL + 2),
       metaTTL(4),
       VErr(SOhNo, AppStack),
       VNull,
       VBool(TRUE),
       VStr(<< >>) >>

ScalarArgs == {1, 3, 4}

\* createLogger(client, bucketId, defaultEntryTTL, defaultMetaTTL), the method
\* called, and the parsed stack of the caller
Contexts ==
    << [severity |-> INFORMATIONAL, ttlEntry |-> 0, ttlMeta |-> 0,
        stack |-> AppStack],
       [severity |-> ERROR, ttlEntry |-> 5, ttlMeta |-> 6,
        stack |-> <<Frame(<<"/", "a", "p", "p", "/", "m", "a", "i", "n", ".",
                            "j", "s">>, 3)>>] >>

Calls ==
    { [args |-> a, ctx |-> c] :
        a \in SeqsUpTo(1..Len(ArgPool), MaxArgs)
                \cup [1..MaxScalarArgs -> ScalarArgs],
        c \in 1..Len(Contexts) }

ArgsOf(c) == [i \in 1..Len(c.args) |-> ArgPool[c.args[i]]]

LoggerOff ==
    /\ call = [args |-> << >>, ctx |-> 1]
    /\ entry = NewEntry(0, 0, 0, 0)
    /\ epc = "off"

LoggerInit ==
    /\ call \in Calls
    /\ entry = NewEntry(0, 0, 0, 0)
    /\ epc = "call"

\* entry.js:59-125, 147-198  a severity method: sendEntry builds the entry and
\* returns client.write(entry)
sendEntry(now) ==
    /\ epc = "call"
    /\ entry' = BuildEntry(Contexts[call.ctx].severity, BucketId,
                           Contexts[call.ctx].ttlEntry,
                           Contexts[call.ctx].ttlMeta, ArgsOf(call),
                           Contexts[call.ctx].stack)
    /\ epc' = "sent"
    /\ ClientWrite(now)
    /\ UNCHANGED <<call, cvars>>

(***************************************************************************)
(* The transport with its sockets and callers.                             *)
(***************************************************************************)
Init == TransportInit /\ CodecOff /\ LoggerOff

Next ==
    \/ \E now \in Times : write(now)
    \/ \E s \in SocketIds : SockConnected(s)
    \/ \E s \in SocketIds : SockFailed(s)
    \/ \E s \in SocketIds : SockEnded(s)
    \/ \E s \in SocketIds : SockClosed(s)
    \/ close

Spec == Init /\ [][Next]_vars

(***************************************************************************)
(* Identifiers: write() calls on a transport whose connection is still     *)
(* being made, and a consumer that encodes and decodes.                    *)
(***************************************************************************)
InitCodec == TransportInit /\ CodecInit /\ LoggerOff

NextCodec ==
    \/ \E now \in Times : write(now)
    \/ CodecEncode
    \/ CodecDecode

SpecCodec == InitCodec /\ [][NextCodec]_vars

(***************************************************************************)
(* Logging calls on a fresh transport.                                     *)
(***************************************************************************)
InitEntry == TransportInit /\ CodecOff /\ LoggerInit

NextEntry == \E now \in Times : sendEntry(now)

SpecEntry == InitEntry /\ [][NextEntry]_vars


(***************************************************************************)
(* Vocabulary of the claims.                                               *)
(***************************************************************************)
\* the value of the byteLength bytes of buf at offset, big-endian
RECURSIVE ReadUIntBE(_, _, _)
ReadUIntBE(buf, offset, byteLength) ==
    IF byteLength = 0 THEN 0
    ELSE ReadUIntBE(buf, offset, byteLength - 1) * 256
            + buf[offset + byteLength - 1]

Attempts == {s \in SocketIds : socks[s].phase = "connecting"}

\* this step is socket s finishing its handshake
Opens(s) == socks[s].phase = "connecting" /\ socks'[s].phase = "open"

\* this step delivers the 'close' event of socket s
Closes(s) == socks[s].phase = "closing" /\ socks'[s].phase = "closed"

\* this step is a write() call
Writes == nwrites' = nwrites + 1

\* the pending writes as socket s transmits them
OnWire(q, s) == [i \in 1..Len(q) |-> [w |-> q[i], sock |-> s, phase |-> "open"]]

EndsWith(sq, suffix) ==
    /\ Len(suffix) <= Len(sq)
    /\ SubSeq(sq, Len(sq) - Len(suffix) + 1, Len(sq)) = suffix

(***************************************************************************)
(* C1: at most one connection attempt is in progress at any time: a write  *)
(* while the transport is absent starts one attempt, and a write while an  *)
(* attempt is still connecting starts none.                                *)
(***************************************************************************)
C1_OneAttemptAtATime == Cardinality(Attempts) <= 1

(***************************************************************************)
(* C2: when a connection attempt succeeds, every write pending at that     *)
(* moment is transmitted on the new connection in FIFO order, and the      *)
(* pending queue is empty once the open transition has been processed.     *)
(***************************************************************************)
C2_OpenFlushesQueue ==
    [][\A s \in SocketIds :
          Opens(s) => /\ queue' = << >>
                      /\ EndsWith(wire', OnWire(queue, s))]_vars

(***************************************************************************)
(* C3: a close notification returns the transport to absent; after an      *)
(* error the pending queue is emptied, after a graceful close it is left   *)
(* exactly as it was.                                                      *)
(***************************************************************************)
C3_CloseHandler ==
    [][\A s \in SocketIds :
          Closes(s) => /\ conn' = 0
                       /\ socks[s].hadError => queue' = << >>
                       /\ ~socks[s].hadError => queue' = queue]_vars

C3_Witness ==
    /\ last.op = "closed"
    /\ last.err
    /\ last.qlen > 0
    /\ queue = << >>
    /\ conn = 0

(***************************************************************************)
(* C4: close() is terminal: it tears the active connection down, and no    *)
(* later operation, a write included, starts a new connection attempt.     *)
(***************************************************************************)
C4_CloseIsTerminal ==
    /\ [](last.op = "close" /\ conn # 0
            => socks[conn].phase \in {"closing", "closed"})
    /\ [][~reconnect => Len(socks') = Len(socks)]_vars

C6_WireInCallOrder ==
    \A i, j \in 1..Len(wire) : i < j => wire[i].w < wire[j].w

(***************************************************************************)
(* C7: the sequence field of a message is the transport's counter, which   *)
(* advances by exactly 1 modulo 2^24 on every write; 2^24 writes later the *)
(* field has the same value again; and the machine and process             *)
(* fingerprints are the same in every message.                             *)
(***************************************************************************)
C7_SequenceAndFingerprints ==
    /\ [][Writes =>
            /\ ReadUIntBE(lastBuf', ofsSeq, 3) = seq % SeqMod
            /\ seq' = seq + 1
            /\ ReadUIntBE(lastBuf', ofsMid, 3) = mid
            /\ ReadUIntBE(lastBuf', ofsPid, 2) = pid
            /\ mid' = mid /\ pid' = pid
            /\ nwrites > 0 =>
                 /\ ReadUIntBE(lastBuf', ofsSeq, 3)
                       = (ReadUIntBE(lastBuf, ofsSeq, 3) + 1) % SeqMod
                 /\ ReadUIntBE(lastBuf', ofsMid, 3)
                       = ReadUIntBE(lastBuf, ofsMid, 3)
                 /\ ReadUIntBE(lastBuf', ofsPid, 2)
                       = ReadUIntBE(lastBuf, ofsPid, 2)]_vars
    /\ [](\A now \in Times :
            ReadUIntBE(WriteHeader(BucketId, now, mid, pid, seq + SeqMod),
                       ofsSeq, 3)
              = ReadUIntBE(WriteHeader(BucketId, now, mid, pid, seq),
                           ofsSeq, 3))

C7_Witness ==
    /\ nwrites = 3
    /\ seq > SeqMod
    /\ ReadUIntBE(lastBuf, ofsSeq, 3) = 0


(***************************************************************************)
(* C10: the identifier write() returns is the base32hex text of the 12     *)
(* header bytes timestamp(4) | machine(3) | process(2) | sequence(3) of    *)
(* the message just built; it is 20 characters of 0-9a-v; decode gives the *)
(* 12 bytes back; and decode(encode(b)) = b for every byte sequence b,     *)
(* padded or not.                                                          *)
(***************************************************************************)
Base32HexAlphabet ==
    {"0", "1", "2", "3", "4", "5", "6", "7", "8", "9", "a", "b", "c", "d",
     "e", "f", "g", "h", "i", "j", "k", "l", "m", "n", "o", "p", "q", "r",
     "s", "t", "u", "v"}

C10_IdentifierRoundTrip ==
    /\ nwrites > 0 =>
         LET xid == XidBytes(lastBuf)
         IN  /\ Len(xid) = 12
             /\ ReadUIntBE(xid, 1, 4) \in Times
             /\ ReadUIntBE(xid, 5, 3) = mid
             /\ ReadUIntBE(xid, 8, 2) = pid
             /\ ReadUIntBE(xid, 10, 3) = (seq - 1) % SeqMod
             /\ lastXid = encode(xid, FALSE)
             /\ Len(lastXid) = 20
             /\ \A i \in 1..Len(lastXid) : lastXid[i] \in Base32HexAlphabet
             /\ decode(lastXid) = [err |-> FALSE, bytes |-> xid]
             /\ decode(encode(xid, TRUE)) = [err |-> FALSE, bytes |-> xid]
    /\ cpc = "decoded" => cOut = [err |-> FALSE, bytes |-> cBytes]

C10_Witness ==
    /\ nwrites = 3
    /\ cpc = "decoded"
    /\ cPad
    /\ Len(cBytes) = 4
    /\ Len(cText) = 8
    /\ cText[8] = "="
    /\ cOut.bytes = cBytes


(***************************************************************************)
(* C8: after building an Entry from any argument sequence every bound of   *)
(* the data model holds: the message is at most maxMessageSize bytes of    *)
(* UTF-8, each tag at most maxTagSize bytes, each meta key and value at    *)
(* most maxMetaKeySize and maxMetaValueSize bytes; there are at most       *)
(* maxTagsCount tags (the first ones, in argument order), at most          *)
(* maxMetaCount meta pairs and at most maxStackTraceCount frames; and      *)
(* metaKeys/metaValues and tracePaths/traceLines have equal lengths.       *)
(***************************************************************************)
AllWithin(strs, max) == \A i \in 1..Len(strs) : bytes(strs[i]) <= max

\* the call's arguments are all non-empty strings or numbers
ScalarCall == \A i \in 1..Len(call.args) : call.args[i] \in {1, 2, 3, 4}

Fewer(a, b) == IF a < b THEN a ELSE b

C8_CountBounds ==
    /\ Len(entry.tags) <= maxTagsCount
    /\ Len(entry.metaKeys) <= maxMetaCount
    /\ Len(entry.tracePaths) <= maxStackTraceCount
    /\ Len(entry.metaKeys) = Len(entry.metaValues)
    /\ Len(entry.tracePaths) = Len(entry.traceLines)
    /\ ScalarCall /\ call.args # << >> =>
         /\ Len(entry.tags) = Fewer(Len(call.args) - 1, maxTagsCount)
         /\ \A k \in 1..Len(entry.tags) :
               entry.tags[k] = truncate(stringify(ArgPool[call.args[k + 1]]),
                                        maxTagSize)

C8_EntryBounds ==
    epc = "sent" =>
        /\ bytes(entry.message) <= maxMessageSize
        /\ AllWithin(entry.tags, maxTagSize)
        /\ AllWithin(entry.metaKeys, maxMetaKeySize)
        /\ AllWithin(entry.metaValues, maxMetaValueSize)
        /\ C8_CountBounds

(***************************************************************************)
(* C9: the builder classifies each argument left to right by first match:  *)
(* a category, entry-TTL or meta-TTL marker carrying an integer v sets its *)
(* field to v clamped into [0, max] and adds nothing to tags or meta; a    *)
(* list appends its elements to tags; a key/value object appends its       *)
(* pairs to meta; a scalar becomes the message if the message is still     *)
(* empty and otherwise a tag.  info("order %d created", 123456,            *)
(* {foo: "bar"}) yields that message, the tag "123456" and the meta pair   *)
(* (foo, bar).                                                             *)
(***************************************************************************)
IsMarker(v, key) ==
    v.t = "object" /\ v.keys = <<key>> /\ v.vals[1].t = "number"

RECURSIVE ClaimedTags(_, _, _)
ClaimedTags(e, items, i) ==
    IF i > Len(items) THEN e
    ELSE ClaimedTags([e EXCEPT !.tags = append(@, truncate(stringify(items[i]),
                                                           maxTagSize),
                                               maxTagsCount)], items, i + 1)

ClaimedScalar(e, str) ==
    IF e.message = << >>
    THEN [e EXCEPT !.message = truncate(str, maxMessageSize)]
    ELSE [e EXCEPT !.tags = append(@, truncate(str, maxTagSize), maxTagsCount)]

ClaimedStep(e, v) ==
    CASE IsMarker(v, KeyCategory) ->
            [e EXCEPT !.category = minMax(v.vals[1].n, 0, maxCategorySize)]
      [] IsMarker(v, KeyEntryTTL) ->
            [e EXCEPT !.ttlEntry = minMax(v.vals[1].n, 0, maxTTL)]
      [] IsMarker(v, KeyMetaTTL) ->
            [e EXCEPT !.ttlMeta = minMax(v.vals[1].n, 0, maxTTL)]
      [] v.t = "array" -> ClaimedTags(e, v.items, 1)
      [] v.t = "error" -> ClaimedScalar(e, v.message)
      [] v.t = "object" -> MetaPairs(e, v, 1)
      [] OTHER -> ClaimedScalar(e, stringify(v))

RECURSIVE Claimed(_, _, _)
Claimed(e, args, i) ==
    IF i > Len(args) THEN e ELSE Claimed(ClaimedStep(e, args[i]), args, i + 1)

\* client.js:149  entry.category || 0
WireCategory(e) == IF e.category = Undefined THEN 0 ELSE e.category

C9_Classification ==
    epc = "sent" =>
        LET c == Claimed(NewEntry(Contexts[call.ctx].severity, BucketId,
                                  Contexts[call.ctx].ttlEntry,
                                  Contexts[call.ctx].ttlMeta),
                         ArgsOf(call), 1)
        IN  /\ entry.message = c.message
            /\ entry.tags = c.tags
            /\ entry.metaKeys = c.metaKeys
            /\ entry.metaValues = c.metaValues
            /\ WireCategory(entry) = WireCategory(c)
            /\ entry.ttlEntry = c.ttlEntry
            /\ entry.ttlMeta = c.ttlMeta
            /\ call.args = <<1, 4, 5>> =>
                 /\ entry.message = SOrder
                 /\ entry.tags = << <<"1", "2", "3", "4", "5", "6">> >>
                 /\ entry.metaKeys = <<SFoo>>
                 /\ entry.metaValues = <<SBar>>

(***************************************************************************)
(* C11: the 'close' event of a superseded socket (one that ensureConnected *)
(* destroyed and replaced with a new connection attempt) leaves the        *)
(* transport's connection reference as it was, so a socket that finishes   *)
(* its handshake finds a non-null connection.                              *)
(***************************************************************************)
C11_StaleCloseKeepsConn ==
    [][/\ \A s \in SocketIds :
              Closes(s) /\ socks[s].superseded => conn' = conn
       /\ \A s \in SocketIds : Opens(s) => conn # 0]_vars

=============================================================================
